---------------------------- MODULE Spec2Model ----------------------------
(***************************************************************************)
(* Model of package sqlhelper (src/sqlhelper.go): the placeholder          *)
(* expander Expand, the value encoder literal, the type-aware sanitizer    *)
(* pipeline (TypeInferrer, TypeAwareProcessor, the four validators), the   *)
(* legacy sanitizeStringInput, replaceCaseInsensitive and quoteString.     *)
(*                                                                         *)
(* A Go string is a sequence of bytes (naturals 0..255); len, slicing and  *)
(* strings.Index work on bytes, `range` and strings.ToLower on the runes   *)
(* decoded from the UTF-8 bytes.  Both views are modelled.                 *)
(***************************************************************************)
EXTENDS Integers, Sequences, FiniteSets, TLC

(***************************************************************************)
(* Bytes, runes and UTF-8 (package unicode/utf8, used by `range` over a    *)
(* string, strings.ToLower, strings.Builder.WriteRune).                    *)
(***************************************************************************)

\* The bytes of s are all below utf8.RuneSelf (0x80).
IsASCII(s) == \A i \in 1..Len(s) : s[i] < 128

\* A UTF-8 continuation byte 0x80..0xBF.
IsCont(b) == b >= 128 /\ b <= 191

\* utf8.RuneError, U+FFFD.
RuneError == 65533

\* utf8.DecodeRuneInString(s[i-1:]) for a 1-based byte position i <= Len(s):
\* the rune and the number of bytes it takes; an invalid or truncated
\* encoding gives (RuneError, 1).
DecodeRune(s, i) ==
    LET n  == Len(s) - i + 1
        b0 == s[i]
        b1 == IF n >= 2 THEN s[i + 1] ELSE 0
        b2 == IF n >= 3 THEN s[i + 2] ELSE 0
        b3 == IF n >= 4 THEN s[i + 3] ELSE 0
        bad == [r |-> RuneError, w |-> 1]
        size == IF b0 >= 194 /\ b0 <= 223 THEN 2
                ELSE IF b0 >= 224 /\ b0 <= 239 THEN 3
                ELSE IF b0 >= 240 /\ b0 <= 244 THEN 4
                ELSE 0
        lo == IF b0 = 224 THEN 160 ELSE IF b0 = 240 THEN 144 ELSE 128
        hi == IF b0 = 237 THEN 159 ELSE IF b0 = 244 THEN 143 ELSE 191
    IN  IF b0 < 128 THEN [r |-> b0, w |-> 1]
        ELSE IF size = 0 \/ n < size THEN bad
        ELSE IF b1 < lo \/ b1 > hi THEN bad
        ELSE IF size = 2 THEN [r |-> (b0 % 32) * 64 + (b1 % 64), w |-> 2]
        ELSE IF ~IsCont(b2) THEN bad
        ELSE IF size = 3
             THEN [r |-> (b0 % 16) * 4096 + (b1 % 64) * 64 + (b2 % 64), w |-> 3]
        ELSE IF ~IsCont(b3) THEN bad
        ELSE [r |-> (b0 % 8) * 262144 + (b1 % 64) * 4096 + (b2 % 64) * 64 + (b3 % 64),
              w |-> 4]

\* utf8.AppendRune: the UTF-8 bytes of rune r; a surrogate or an out of
\* range value is written as RuneError.
EncodeRune(r) ==
    IF r < 0 \/ r > 1114111 \/ (r >= 55296 /\ r <= 57343) THEN <<239, 191, 189>>
    ELSE IF r < 128 THEN <<r>>
    ELSE IF r < 2048 THEN <<192 + (r \div 64), 128 + (r % 64)>>
    ELSE IF r < 65536
         THEN <<224 + (r \div 4096), 128 + ((r \div 64) % 64), 128 + (r % 64)>>
    ELSE <<240 + (r \div 262144), 128 + ((r \div 4096) % 64),
           128 + ((r \div 64) % 64), 128 + (r % 64)>>

\* `for _, r := range s`: the decoded runes of s from byte position i on,
\* each with the position and width of its encoding.
RECURSIVE RunesFrom(_, _)
RunesFrom(s, i) ==
    IF i > Len(s) THEN <<>>
    ELSE LET d == DecodeRune(s, i)
         IN  <<[r |-> d.r, w |-> d.w, at |-> i]>> \o RunesFrom(s, i + d.w)

\* The function f of domain 1..n, as the sequence f[1], ..., f[n].
AsSeq(f) == f \o <<>>

\* The runes of s; a string of ASCII bytes is its own rune sequence.
Runes(s) ==
    IF IsASCII(s)
    THEN AsSeq([i \in 1..Len(s) |-> [r |-> s[i], w |-> 1, at |-> i]])
    ELSE RunesFrom(s, 1)

\* The concatenation of a sequence of byte strings.
RECURSIVE Concat(_)
Concat(ss) == IF ss = <<>> THEN <<>> ELSE Head(ss) \o Concat(Tail(ss))

(***************************************************************************)
(* Package strings.                                                        *)
(***************************************************************************)

\* s[from:] for a 0-based byte offset from <= len(s).
SliceFrom(s, from) == SubSeq(s, from + 1, Len(s))

\* s[from:to] for 0-based byte offsets from <= to <= len(s).
Slice(s, from, to) == SubSeq(s, from + 1, to)

\* sub occurs in s at the 1-based byte position i.
OccursAt(s, sub, i) ==
    /\ i >= 1
    /\ i + Len(sub) - 1 <= Len(s)
    /\ \A j \in 1..Len(sub) : s[i + j - 1] = sub[j]

\* strings.Index(s, sub): the 0-based offset of the first occurrence of sub
\* in s, or -1.
Index(s, sub) ==
    LET P == {i \in 1..(Len(s) - Len(sub) + 1) : OccursAt(s, sub, i)}
    IN  IF P = {} THEN -1 ELSE (CHOOSE i \in P : \A k \in P : i <= k) - 1

\* strings.Contains(s, sub).
Contains(s, sub) == Index(s, sub) >= 0

\* strings.ReplaceAll(s, old, new) for a non-empty old: the occurrences of
\* old, left to right and non-overlapping, replaced by new.
RECURSIVE ReplaceAll(_, _, _)
ReplaceAll(s, old, new) ==
    IF Len(old) = 1 /\ Len(new) = 1
    THEN AsSeq([i \in 1..Len(s) |-> IF s[i] = old[1] THEN new[1] ELSE s[i]])
    ELSE LET i == Index(s, old)
         IN  IF i = -1 THEN s
             ELSE Slice(s, 0, i) \o new
                  \o ReplaceAll(SliceFrom(s, i + Len(old)), old, new)

\* The least element of a non-empty set of integers.
Min(S) == CHOOSE x \in S : \A y \in S : x <= y

\* unicode.ToLower(r), on the runes the model's texts are made of: ASCII
\* and Latin-1 capitals, U+0130 (2 bytes, lower case "i" of 1 byte), U+023A
\* (2 bytes, lower case U+2C65 of 3 bytes), U+212A KELVIN SIGN (3 bytes,
\* lower case "k"), the full-width capitals; every other rune is unchanged.
LowerRune(r) ==
    IF r >= 65 /\ r <= 90 THEN r + 32
    ELSE IF r >= 192 /\ r <= 222 /\ r # 215 THEN r + 32
    ELSE IF r = 304 THEN 105
    ELSE IF r = 570 THEN 11365
    ELSE IF r = 8490 THEN 107
    ELSE IF r >= 65313 /\ r <= 65338 THEN r + 32
    ELSE r

\* strings.ToLower(s): byte by byte for ASCII text; otherwise
\* strings.Map(unicode.ToLower, s), which re-encodes every rune and writes
\* an invalid byte as the 3 bytes of RuneError.
ToLower(s) ==
    IF IsASCII(s) THEN AsSeq([i \in 1..Len(s) |-> LowerRune(s[i])])
    ELSE LET rs == RunesFrom(s, 1)
         IN  Concat([k \in 1..Len(rs) |-> EncodeRune(LowerRune(rs[k].r))])


\* unicode.IsSpace(r).
IsSpace(r) ==
    \/ r \in {9, 10, 11, 12, 13, 32, 133, 160, 5760, 8232, 8233, 8239, 8287, 12288}
    \/ (r >= 8192 /\ r <= 8202)

\* strings.TrimSpace(s): s without its leading and trailing white space runes.
TrimSpace(s) ==
    LET rs == Runes(s)
        NS == {k \in 1..Len(rs) : ~IsSpace(rs[k].r)}
    IN  IF NS = {} THEN <<>>
        ELSE LET first == Min(NS)
                 last  == -Min({-k : k \in NS})
             IN  SubSeq(s, rs[first].at, rs[last].at + rs[last].w - 1)

\* A byte the regular expression class \s matches: [\t\n\f\r ].
IsReSpace(b) == b \in {9, 10, 12, 13, 32}

\* regexp.MustCompile(`\s+`).ReplaceAllString(s, " "): every maximal run of
\* \s bytes becomes one space.
RECURSIVE CollapseFrom(_, _)
CollapseFrom(s, i) ==
    IF i > Len(s) THEN <<>>
    ELSE IF ~IsReSpace(s[i]) THEN <<s[i]>> \o CollapseFrom(s, i + 1)
    ELSE IF i > 1 /\ IsReSpace(s[i - 1]) THEN CollapseFrom(s, i + 1)
    ELSE <<32>> \o CollapseFrom(s, i + 1)

CollapseSpaces(s) ==
    IF \A i \in 1..Len(s) :
          IsReSpace(s[i]) => (s[i] = 32 /\ (i = 1 \/ ~IsReSpace(s[i - 1])))
    THEN s
    ELSE CollapseFrom(s, 1)

(***************************************************************************)
(* golang.org/x/text/unicode/norm: norm.NFKC.String.                       *)
(***************************************************************************)

\* The NFKC form of one rune, on the runes the model's texts are made of:
\* a full-width form U+FF01..U+FF5E folds to its ASCII character, U+3000
\* and U+00A0 to a space, U+212A KELVIN SIGN to "K", U+FB01 (ligature fi)
\* to the two letters "fi", U+00BD (one half) to "1", U+2044, "2"; every
\* other rune is unchanged.
NFKCRune(r) ==
    IF r >= 65281 /\ r <= 65374 THEN <<r - 65248>>
    ELSE IF r = 12288 \/ r = 160 THEN <<32>>
    ELSE IF r = 8490 THEN <<75>>
    ELSE IF r = 64257 THEN <<102, 105>>
    ELSE IF r = 189 THEN <<49, 8260, 50>>
    ELSE <<r>>

\* norm.NFKC.String(s): ASCII text is already normal; otherwise every rune
\* is folded and an invalid byte is copied as it is.
NFKC(s) ==
    IF IsASCII(s) THEN s
    ELSE LET rs == RunesFrom(s, 1)
             One(k) == IF rs[k].r = RuneError /\ rs[k].w = 1
                       THEN <<s[rs[k].at]>>
                       ELSE LET f == NFKCRune(rs[k].r)
                            IN  Concat([j \in 1..Len(f) |-> EncodeRune(f[j])])
         IN  Concat([k \in 1..Len(rs) |-> One(k)])

(***************************************************************************)
(* Results.  A call returns a text, or it panics (a slice index out of     *)
(* range is a run-time panic in Go).                                       *)
(***************************************************************************)
Ok(s) == [ok |-> TRUE, s |-> s]
Panic == [ok |-> FALSE, s |-> <<>>]

(***************************************************************************)
(* replaceCaseInsensitive                                                  *)
(***************************************************************************)

\* The loop of replaceCaseInsensitive from the offset lastEnd on: the text
\* written to the builder from there, or a panic when a slice expression is
\* out of range.  The offsets are found in sLower and used on s.
RECURSIVE ReplaceLoop(_, _, _, _, _, _)
ReplaceLoop(s, sLower, oldLower, oldLen, new, lastEnd) ==
    IF lastEnd > Len(sLower) THEN Panic                  \* sLower[lastEnd:]
    ELSE LET index == Index(SliceFrom(sLower, lastEnd), oldLower)
         IN  IF index = -1
             THEN IF lastEnd > Len(s) THEN Panic         \* s[lastEnd:]
                  ELSE Ok(SliceFrom(s, lastEnd))
             ELSE LET actualIndex == lastEnd + index
                  IN  IF actualIndex > Len(s) THEN Panic \* s[lastEnd:actualIndex]
                      ELSE LET rest == ReplaceLoop(s, sLower, oldLower, oldLen, new,
                                                   actualIndex + oldLen)
                           IN  IF ~rest.ok THEN Panic
                               ELSE Ok(Slice(s, lastEnd, actualIndex) \o new \o rest.s)

replaceCaseInsensitive(s, old, new) ==
    ReplaceLoop(s, ToLower(s), ToLower(old), Len(old), new, 0)

(***************************************************************************)
(* The dangerous-pattern loop shared by the Description, Generic and Name  *)
(* validators and by sanitizeStringInput.                                  *)
(*                                                                         *)
(* dangerousPatterns is a Go map, and `for pattern, replacement := range   *)
(* dangerousPatterns` visits its entries in an order the language leaves   *)
(* unspecified and the runtime randomizes: every order is a possible run.  *)
(* A table is modelled as the sequence of its (pattern, replacement)       *)
(* pairs, and the loop as the set of the results over all visiting orders. *)
(***************************************************************************)

\* The set of the bytes of s.
Bytes(s) == {s[i] : i \in 1..Len(s)}

\* The body of the loop for one entry p = <<pattern, replacement>>, with
\* lower = strings.ToLower(result) as the code maintains it.
ApplyPattern(result, p) ==
    IF Contains(ToLower(result), p[1])
    THEN replaceCaseInsensitive(result, p[1], p[2])
    ELSE Ok(result)

\* The bytes that can occur in the lower-cased text while the entries R of
\* table are applied to a text whose lower-cased bytes are B: B and the bytes
\* of the replacement of every entry whose pattern is made of such bytes.
RECURSIVE ReachableBytes(_, _, _)
ReachableBytes(B, table, R) ==
    LET add == UNION {Bytes(ToLower(table[k][2])) :
                        k \in {j \in R : Bytes(table[j][1]) \subseteq B}}
    IN  IF add \subseteq B THEN B ELSE ReachableBytes(B \cup add, table, R)

\* The entries among R that can still match while the loop runs on result.
\* An entry outside this set matches neither result nor any text the loop
\* makes of it, so that visiting it changes nothing wherever it comes in the
\* order: only the orders of the entries of Live are told apart.
Live(result, table, R) ==
    LET B == ReachableBytes(Bytes(ToLower(result)), table, R)
    IN  {k \in R : Bytes(table[k][1]) \subseteq B}

\* The results of the loop over the entries R of table, started on res, for
\* every order of visiting them.
RECURSIVE LoopOutcomes(_, _, _)
LoopOutcomes(res, table, R) ==
    IF ~res.ok THEN {Panic}
    ELSE LET L == Live(res.s, table, R)
         IN  IF L = {} THEN {res}
             ELSE UNION {LoopOutcomes(ApplyPattern(res.s, table[k]), table, L \ {k}) :
                           k \in L}

PatternLoop(s, table) == LoopOutcomes(Ok(s), table, DOMAIN table)

\* result[:cap] when len(result) > cap.
Truncate(s, cap) == IF Len(s) > cap THEN Slice(s, 0, cap) ELSE s

(***************************************************************************)
(* ParamType and the four validators.                                      *)
(***************************************************************************)
ParamTypeGeneric == 0
ParamTypeID == 1
ParamTypeName == 2
ParamTypeDescription == 3

\* The length caps of the validators and of sanitizeStringInput.
IDMaxLen == 100
NameMaxLen == 500
GenericMaxLen == 2000
DescriptionMaxLen == 10000
SanitizeMaxLen == 65535

\* The allow-list of IDValidator.Validate and TypeInferrer.InferType:
\* [A-Za-z0-9_-].
IsIDRune(r) ==
    \/ (r >= 97 /\ r <= 122)
    \/ (r >= 65 /\ r <= 90)
    \/ (r >= 48 /\ r <= 57)
    \/ r = 45
    \/ r = 95

\* IDValidator.Validate, before the length limit: every rune of the
\* normalized text that is not on the allow-list becomes one "_".
IDClean(value) ==
    LET rs == Runes(NFKC(value))
    IN  AsSeq([k \in 1..Len(rs) |-> IF IsIDRune(rs[k].r) THEN rs[k].r ELSE 95])

\* IDValidator.Validate with the length limit off by one (cleaned[:101]).
IDValidateOffByOne(value) == Ok(Truncate(IDClean(value), IDMaxLen + 1))

IDValidate(value) == Ok(Truncate(IDClean(value), IDMaxLen))

\* DescriptionValidator.Validate: dangerousPatterns, in source order.
DescriptionPatterns ==
    <<
       \* line 84: ['; drop table] -> ['; drop_table]
       << <<39,59,32,100,114,111,112,32,116,97,98,108,101>>,
          <<39,59,32,100,114,111,112,95,116,97,98,108,101>> >>,
       \* line 85: ['; delete from] -> ['; delete_from]
       << <<39,59,32,100,101,108,101,116,101,32,102,114,111,109>>,
          <<39,59,32,100,101,108,101,116,101,95,102,114,111,109>> >>,
       \* line 86: ['; truncate table] -> ['; truncate_table]
       << <<39,59,32,116,114,117,110,99,97,116,101,32,116,97,98,108,101>>,
          <<39,59,32,116,114,117,110,99,97,116,101,95,116,97,98,108,101>> >>,
       \* line 87: ['; insert into] -> ['; insert_into]
       << <<39,59,32,105,110,115,101,114,116,32,105,110,116,111>>,
          <<39,59,32,105,110,115,101,114,116,95,105,110,116,111>> >>,
       \* line 88: [; drop table] -> [; drop_table]
       << <<59,32,100,114,111,112,32,116,97,98,108,101>>,
          <<59,32,100,114,111,112,95,116,97,98,108,101>> >>,
       \* line 89: [; delete from] -> [; delete_from]
       << <<59,32,100,101,108,101,116,101,32,102,114,111,109>>,
          <<59,32,100,101,108,101,116,101,95,102,114,111,109>> >>,
       \* line 90: [; truncate table] -> [; truncate_table]
       << <<59,32,116,114,117,110,99,97,116,101,32,116,97,98,108,101>>,
          <<59,32,116,114,117,110,99,97,116,101,95,116,97,98,108,101>> >>,
       \* line 91: [; insert into] -> [; insert_into]
       << <<59,32,105,110,115,101,114,116,32,105,110,116,111>>,
          <<59,32,105,110,115,101,114,116,95,105,110,116,111>> >>,
       \* line 92: [union select] -> [union_select]
       << <<117,110,105,111,110,32,115,101,108,101,99,116>>,
          <<117,110,105,111,110,95,115,101,108,101,99,116>> >>,
       \* line 93: [union all select] -> [union_all_select]
       << <<117,110,105,111,110,32,97,108,108,32,115,101,108,101,99,116>>,
          <<117,110,105,111,110,95,97,108,108,95,115,101,108,101,99,116>> >>,
       \* line 94: [xp_cmdshell] -> [xp_cmd_shell]
       << <<120,112,95,99,109,100,115,104,101,108,108>>,
          <<120,112,95,99,109,100,95,115,104,101,108,108>> >>,
       \* line 95: [sp_executesql] -> [sp_execute_sql]
       << <<115,112,95,101,120,101,99,117,116,101,115,113,108>>,
          <<115,112,95,101,120,101,99,117,116,101,95,115,113,108>> >>,
       \* line 97: [--] -> [_-]
       << <<45,45>>,
          <<95,45>> >>,
       \* line 98: [/*] -> [/_*]
       << <<47,42>>,
          <<47,95,42>> >>,
       \* line 99: [*/] -> [*_/]
       << <<42,47>>,
          <<42,95,47>> >>
    >>

\* DescriptionValidator.Validate: the possible results.
DescriptionValidate(value) ==
    LET n1 == NFKC(value)
        n2 == ReplaceAll(n1, <<13, 10>>, <<10>>)
        n3 == ReplaceAll(n2, <<13>>, <<10>>)
    IN  {IF res.ok THEN Ok(Truncate(res.s, DescriptionMaxLen)) ELSE Panic :
           res \in PatternLoop(n3, DescriptionPatterns)}

\* The white space handling shared by GenericValidator and NameValidator:
\* tab, line feed and carriage return become spaces, runs of white space
\* collapse to one space, and the text is trimmed.
NormalizeSpaces(value) ==
    LET n1 == NFKC(value)
        n2 == ReplaceAll(n1, <<9>>, <<32>>)
        n3 == ReplaceAll(n2, <<10>>, <<32>>)
        n4 == ReplaceAll(n3, <<13>>, <<32>>)
    IN  TrimSpace(CollapseSpaces(n4))

\* GenericValidator.Validate: dangerousPatterns, in source order.
GenericPatterns ==
    <<
       \* line 142: [union select] -> [union_select]
       << <<117,110,105,111,110,32,115,101,108,101,99,116>>,
          <<117,110,105,111,110,95,115,101,108,101,99,116>> >>,
       \* line 143: [union all select] -> [union_all_select]
       << <<117,110,105,111,110,32,97,108,108,32,115,101,108,101,99,116>>,
          <<117,110,105,111,110,95,97,108,108,95,115,101,108,101,99,116>> >>,
       \* line 144: ['; drop table] -> ['; drop_table]
       << <<39,59,32,100,114,111,112,32,116,97,98,108,101>>,
          <<39,59,32,100,114,111,112,95,116,97,98,108,101>> >>,
       \* line 145: ['; delete from] -> ['; delete_from]
       << <<39,59,32,100,101,108,101,116,101,32,102,114,111,109>>,
          <<39,59,32,100,101,108,101,116,101,95,102,114,111,109>> >>,
       \* line 146: ['; truncate table] -> ['; truncate_table]
       << <<39,59,32,116,114,117,110,99,97,116,101,32,116,97,98,108,101>>,
          <<39,59,32,116,114,117,110,99,97,116,101,95,116,97,98,108,101>> >>,
       \* line 147: ['; insert into] -> ['; insert_into]
       << <<39,59,32,105,110,115,101,114,116,32,105,110,116,111>>,
          <<39,59,32,105,110,115,101,114,116,95,105,110,116,111>> >>,
       \* line 148: ['; update ] -> ['; update_]
       << <<39,59,32,117,112,100,97,116,101,32>>,
          <<39,59,32,117,112,100,97,116,101,95>> >>,
       \* line 149: [; drop table] -> [; drop_table]
       << <<59,32,100,114,111,112,32,116,97,98,108,101>>,
          <<59,32,100,114,111,112,95,116,97,98,108,101>> >>,
       \* line 150: [; delete from] -> [; delete_from]
       << <<59,32,100,101,108,101,116,101,32,102,114,111,109>>,
          <<59,32,100,101,108,101,116,101,95,102,114,111,109>> >>,
       \* line 151: [; truncate table] -> [; truncate_table]
       << <<59,32,116,114,117,110,99,97,116,101,32,116,97,98,108,101>>,
          <<59,32,116,114,117,110,99,97,116,101,95,116,97,98,108,101>> >>,
       \* line 152: [; insert into] -> [; insert_into]
       << <<59,32,105,110,115,101,114,116,32,105,110,116,111>>,
          <<59,32,105,110,115,101,114,116,95,105,110,116,111>> >>,
       \* line 153: [; update ] -> [; update_]
       << <<59,32,117,112,100,97,116,101,32>>,
          <<59,32,117,112,100,97,116,101,95>> >>,
       \* line 154: [ or 1=1] -> [_or_1=1]
       << <<32,111,114,32,49,61,49>>,
          <<95,111,114,95,49,61,49>> >>,
       \* line 155: [ or '1'='1] -> [_or_'1'='1]
       << <<32,111,114,32,39,49,39,61,39,49>>,
          <<95,111,114,95,39,49,39,61,39,49>> >>,
       \* line 156: [ and 1=1] -> [_and_1=1]
       << <<32,97,110,100,32,49,61,49>>,
          <<95,97,110,100,95,49,61,49>> >>,
       \* line 157: [/*] -> [/_*]
       << <<47,42>>,
          <<47,95,42>> >>,
       \* line 158: [*/] -> [*_/]
       << <<42,47>>,
          <<42,95,47>> >>,
       \* line 159: [--] -> [__]
       << <<45,45>>,
          <<95,95>> >>,
       \* line 160: [xp_cmdshell] -> [xp_cmd_shell]
       << <<120,112,95,99,109,100,115,104,101,108,108>>,
          <<120,112,95,99,109,100,95,115,104,101,108,108>> >>,
       \* line 161: [sp_executesql] -> [sp_execute_sql]
       << <<115,112,95,101,120,101,99,117,116,101,115,113,108>>,
          <<115,112,95,101,120,101,99,117,116,101,95,115,113,108>> >>
    >>

\* GenericValidator.Validate: the possible results.
GenericValidate(value) ==
    {IF res.ok THEN Ok(Truncate(res.s, GenericMaxLen)) ELSE Panic :
       res \in PatternLoop(NormalizeSpaces(value), GenericPatterns)}

\* NameValidator.Validate: dangerousPatterns, in source order.
NamePatterns ==
    <<
       \* line 204: [union select] -> [union_select]
       << <<117,110,105,111,110,32,115,101,108,101,99,116>>,
          <<117,110,105,111,110,95,115,101,108,101,99,116>> >>,
       \* line 205: [union all select] -> [union_all_select]
       << <<117,110,105,111,110,32,97,108,108,32,115,101,108,101,99,116>>,
          <<117,110,105,111,110,95,97,108,108,95,115,101,108,101,99,116>> >>,
       \* line 206: [ or ] -> [_or_]
       << <<32,111,114,32>>,
          <<95,111,114,95>> >>,
       \* line 207: [ and ] -> [_and_]
       << <<32,97,110,100,32>>,
          <<95,97,110,100,95>> >>,
       \* line 208: [' or '] -> ['_or_']
       << <<39,32,111,114,32,39>>,
          <<39,95,111,114,95,39>> >>,
       \* line 209: [" or "] -> ["_or_"]
       << <<34,32,111,114,32,34>>,
          <<34,95,111,114,95,34>> >>,
       \* line 210: [' and '] -> ['_and_']
       << <<39,32,97,110,100,32,39>>,
          <<39,95,97,110,100,95,39>> >>,
       \* line 211: [" and "] -> ["_and_"]
       << <<34,32,97,110,100,32,34>>,
          <<34,95,97,110,100,95,34>> >>,
       \* line 212: [ or 1=1] -> [_or_1=1]
       << <<32,111,114,32,49,61,49>>,
          <<95,111,114,95,49,61,49>> >>,
       \* line 213: [ or '1'='1] -> [_or_'1'='1]
       << <<32,111,114,32,39,49,39,61,39,49>>,
          <<95,111,114,95,39,49,39,61,39,49>> >>,
       \* line 214: ['; drop table] -> ['; drop_table]
       << <<39,59,32,100,114,111,112,32,116,97,98,108,101>>,
          <<39,59,32,100,114,111,112,95,116,97,98,108,101>> >>,
       \* line 215: ['; delete from] -> ['; delete_from]
       << <<39,59,32,100,101,108,101,116,101,32,102,114,111,109>>,
          <<39,59,32,100,101,108,101,116,101,95,102,114,111,109>> >>,
       \* line 216: ['; insert into] -> ['; insert_into]
       << <<39,59,32,105,110,115,101,114,116,32,105,110,116,111>>,
          <<39,59,32,105,110,115,101,114,116,95,105,110,116,111>> >>,
       \* line 217: ['; update set] -> ['; update_set]
       << <<39,59,32,117,112,100,97,116,101,32,115,101,116>>,
          <<39,59,32,117,112,100,97,116,101,95,115,101,116>> >>,
       \* line 218: [/*] -> [/_*]
       << <<47,42>>,
          <<47,95,42>> >>,
       \* line 219: [*/] -> [*_/]
       << <<42,47>>,
          <<42,95,47>> >>,
       \* line 220: [--] -> [__]
       << <<45,45>>,
          <<95,95>> >>,
       \* line 221: [#] -> [_#]
       << <<35>>,
          <<95,35>> >>,
       \* line 222: [xp_cmdshell] -> [xp_cmd_shell]
       << <<120,112,95,99,109,100,115,104,101,108,108>>,
          <<120,112,95,99,109,100,95,115,104,101,108,108>> >>,
       \* line 223: [sp_executesql] -> [sp_execute_sql]
       << <<115,112,95,101,120,101,99,117,116,101,115,113,108>>,
          <<115,112,95,101,120,101,99,117,116,101,95,115,113,108>> >>,
       \* line 224: [ascii] -> [_ascii_]
       << <<97,115,99,105,105>>,
          <<95,97,115,99,105,105,95>> >>,
       \* line 225: [substring] -> [_substring_]
       << <<115,117,98,115,116,114,105,110,103>>,
          <<95,115,117,98,115,116,114,105,110,103,95>> >>,
       \* line 226: [concat] -> [_concat_]
       << <<99,111,110,99,97,116>>,
          <<95,99,111,110,99,97,116,95>> >>,
       \* line 227: [extractvalue] -> [_extractvalue_]
       << <<101,120,116,114,97,99,116,118,97,108,117,101>>,
          <<95,101,120,116,114,97,99,116,118,97,108,117,101,95>> >>,
       \* line 228: [waitfor] -> [_waitfor_]
       << <<119,97,105,116,102,111,114>>,
          <<95,119,97,105,116,102,111,114,95>> >>,
       \* line 229: [delay] -> [_delay_]
       << <<100,101,108,97,121>>,
          <<95,100,101,108,97,121,95>> >>
    >>

\* NameValidator.Validate: the possible results.
NameValidate(value) ==
    {IF res.ok THEN Ok(Truncate(res.s, NameMaxLen)) ELSE Panic :
       res \in PatternLoop(NormalizeSpaces(value), NamePatterns)}

\* sanitizeStringInput: dangerousPatterns, in source order.
SanitizePatterns ==
    <<
       \* line 452: [union select] -> [union_select]
       << <<117,110,105,111,110,32,115,101,108,101,99,116>>,
          <<117,110,105,111,110,95,115,101,108,101,99,116>> >>,
       \* line 453: [union all select] -> [union_all_select]
       << <<117,110,105,111,110,32,97,108,108,32,115,101,108,101,99,116>>,
          <<117,110,105,111,110,95,97,108,108,95,115,101,108,101,99,116>> >>,
       \* line 454: [' or '1'='1] -> ['_or_'1'='1]
       << <<39,32,111,114,32,39,49,39,61,39,49>>,
          <<39,95,111,114,95,39,49,39,61,39,49>> >>,
       \* line 455: [' or 1=1] -> ['_or_1=1]
       << <<39,32,111,114,32,49,61,49>>,
          <<39,95,111,114,95,49,61,49>> >>,
       \* line 456: ['; drop table] -> [';_drop_table]
       << <<39,59,32,100,114,111,112,32,116,97,98,108,101>>,
          <<39,59,95,100,114,111,112,95,116,97,98,108,101>> >>,
       \* line 457: ['; delete from] -> [';_delete_from]
       << <<39,59,32,100,101,108,101,116,101,32,102,114,111,109>>,
          <<39,59,95,100,101,108,101,116,101,95,102,114,111,109>> >>,
       \* line 458: ['; update ] -> [';_update_]
       << <<39,59,32,117,112,100,97,116,101,32>>,
          <<39,59,95,117,112,100,97,116,101,95>> >>,
       \* line 459: ['; insert into] -> [';_insert_into]
       << <<39,59,32,105,110,115,101,114,116,32,105,110,116,111>>,
          <<39,59,95,105,110,115,101,114,116,95,105,110,116,111>> >>,
       \* line 460: [/*] -> [/_*]
       << <<47,42>>,
          <<47,95,42>> >>,
       \* line 461: [*/] -> [*_/]
       << <<42,47>>,
          <<42,95,47>> >>,
       \* line 462: [--] -> [__]
       << <<45,45>>,
          <<95,95>> >>,
       \* line 463: [xp_cmdshell] -> [xp_cmd_shell]
       << <<120,112,95,99,109,100,115,104,101,108,108>>,
          <<120,112,95,99,109,100,95,115,104,101,108,108>> >>,
       \* line 464: [sp_executesql] -> [sp_execute_sql]
       << <<115,112,95,101,120,101,99,117,116,101,115,113,108>>,
          <<115,112,95,101,120,101,99,117,116,101,95,115,113,108>> >>
    >>

\* sanitizeStringInput: the possible results.  The input is cut to
\* SanitizeMaxLen bytes before the patterns are replaced.
sanitizeStringInput(s) == PatternLoop(Truncate(s, SanitizeMaxLen), SanitizePatterns)

\* The validators, by name, and the ParamType each reports.
Validators == {"IDValidator", "NameValidator", "DescriptionValidator", "GenericValidator"}

\* ParamValidator is an exported interface: two validators a caller of the
\* package defines, one that reports the type ID and one that reports a
\* type of its own, both returning the value as it is.
CallerValidators == {"CallerIDValidator", "CallerExtraValidator"}

GetType(v) ==
    CASE v = "IDValidator" -> ParamTypeID
      [] v = "NameValidator" -> ParamTypeName
      [] v = "DescriptionValidator" -> ParamTypeDescription
      [] v = "GenericValidator" -> ParamTypeGeneric
      [] v = "CallerIDValidator" -> ParamTypeID
      [] v = "CallerExtraValidator" -> 4

\* v.Validate(value): the possible results.
Validate(v, value) ==
    CASE v = "IDValidator" -> {IDValidate(value)}
      [] v = "NameValidator" -> NameValidate(value)
      [] v = "DescriptionValidator" -> DescriptionValidate(value)
      [] v = "GenericValidator" -> GenericValidate(value)
      [] v \in CallerValidators -> {Ok(value)}

(***************************************************************************)
(* TypeAwareProcessor: the registry of validators.                         *)
(***************************************************************************)

\* RegisterValidator: the map with validator stored under its own type.
RegisterValidator(reg, validator) ==
    [t \in DOMAIN reg \cup {GetType(validator)} |->
        IF t = GetType(validator) THEN validator ELSE reg[t]]

\* NewTypeAwareProcessor: the four registrations on an empty map.
NewTypeAwareProcessor ==
    RegisterValidator(
        RegisterValidator(
            RegisterValidator(
                RegisterValidator(<<>>, "IDValidator"),
                "NameValidator"),
            "DescriptionValidator"),
        "GenericValidator")

\* GetValidator if it fell back to the validator of the type ID.
GetValidatorFallsBackToID(reg, paramType) ==
    IF paramType \in DOMAIN reg THEN reg[paramType] ELSE reg[ParamTypeID]

\* GetValidator: the validator registered for paramType, or the generic one.
GetValidator(reg, paramType) ==
    IF paramType \in DOMAIN reg THEN reg[paramType] ELSE reg[ParamTypeGeneric]

\* ProcessString: the possible results.
ProcessString(reg, value, paramType) == Validate(GetValidator(reg, paramType), value)

(***************************************************************************)
(* TypeInferrer.InferType                                                  *)
(***************************************************************************)

\* The limits of InferType: an ID has at most 100 bytes, a text of more than
\* 500 bytes is a description.
InferIDMaxLen == 100
InferDescriptionMinLen == 500

\* The CJK ranges InferType looks for.
IsCJK(r) ==
    \/ (r >= 19968 /\ r <= 40959)     \* 0x4e00..0x9fff
    \/ (r >= 13312 /\ r <= 19903)     \* 0x3400..0x4dbf
    \/ (r >= 63744 /\ r <= 64255)     \* 0xf900..0xfaff

\* namePatterns, as UTF-8 bytes, in source order.
namePatterns ==
    <<
       <<233,161,185,231,155,174>>,
       <<229,176,143,229,140,186>>,
       <<229,164,167,229,142,166>>,
       <<229,185,191,229,156,186>>,
       <<228,184,173,229,191,131>>,
       <<232,138,177,229,155,173>>,
       <<229,133,172,229,175,147>>,
       <<229,136,171,229,162,133>>,
       <<230,156,159>>,
       <<229,140,186>>,
       <<229,143,183>>
    >>

\* InferType with the Name check made before the Description check.
InferTypeNameFirst(value) ==
    LET rs == Runes(value)
    IN  IF Len(value) = 0 THEN ParamTypeGeneric
        ELSE IF Len(value) <= InferIDMaxLen /\ \A k \in 1..Len(rs) : IsIDRune(rs[k].r)
             THEN ParamTypeID
        ELSE IF \/ \E k \in 1..Len(rs) : IsCJK(rs[k].r)
                \/ \E j \in DOMAIN namePatterns : Contains(value, namePatterns[j])
             THEN ParamTypeName
        ELSE IF \/ Len(value) > InferDescriptionMinLen
                \/ Contains(value, <<10>>)
                \/ Contains(value, <<13>>)
             THEN ParamTypeDescription
        ELSE ParamTypeGeneric

InferType(value) ==
    LET rs == Runes(value)
    IN  IF Len(value) = 0 THEN ParamTypeGeneric
        ELSE IF Len(value) <= InferIDMaxLen /\ \A k \in 1..Len(rs) : IsIDRune(rs[k].r)
             THEN ParamTypeID
        ELSE IF \/ Len(value) > InferDescriptionMinLen
                \/ Contains(value, <<10>>)
                \/ Contains(value, <<13>>)
             THEN ParamTypeDescription
        ELSE IF \/ \E k \in 1..Len(rs) : IsCJK(rs[k].r)
                \/ \E j \in DOMAIN namePatterns : Contains(value, namePatterns[j])
             THEN ParamTypeName
        ELSE ParamTypeGeneric

(***************************************************************************)
(* quoteString                                                             *)
(***************************************************************************)
\* quoteString with the backslash escaped last instead of first.
quoteStringBackslashLast(s) ==
    LET s2 == ReplaceAll(s, <<39>>, <<39, 39>>)
        s3 == ReplaceAll(s2, <<34>>, <<92, 34>>)
        s4 == ReplaceAll(s3, <<10>>, <<92, 110>>)
        s5 == ReplaceAll(s4, <<13>>, <<92, 114>>)
        s6 == ReplaceAll(s5, <<9>>, <<92, 116>>)
        s7 == ReplaceAll(s6, <<0>>, <<92, 48>>)
        s8 == ReplaceAll(s7, <<26>>, <<92, 90>>)
        s9 == ReplaceAll(s8, <<92>>, <<92, 92>>)
    IN  <<39>> \o s9 \o <<39>>

quoteString(s) ==
    LET s1 == ReplaceAll(s, <<92>>, <<92, 92>>)     \* \    -> \\
        s2 == ReplaceAll(s1, <<39>>, <<39, 39>>)    \* '    -> ''
        s3 == ReplaceAll(s2, <<34>>, <<92, 34>>)    \* "    -> \"
        s4 == ReplaceAll(s3, <<10>>, <<92, 110>>)   \* LF   -> \n
        s5 == ReplaceAll(s4, <<13>>, <<92, 114>>)   \* CR   -> \r
        s6 == ReplaceAll(s5, <<9>>, <<92, 116>>)    \* TAB  -> \t
        s7 == ReplaceAll(s6, <<0>>, <<92, 48>>)     \* NUL  -> \0
        s8 == ReplaceAll(s7, <<26>>, <<92, 90>>)    \* 0x1A -> \Z
    IN  <<39>> \o s8 \o <<39>>

(***************************************************************************)
(* Values (interface{}) and literal.                                       *)
(*                                                                         *)
(* A value is a record tagged with the case of the type switch of literal  *)
(* it takes: "nil", "bool", "int" (any integer width), "float", "string",  *)
(* "bytes", "time", "valuer" (none of these, implements driver.Valuer;     *)
(* err is the error of Value(), <<>> for nil, dv the driver.Value it       *)
(* resolves to) and "other" (none of these, no Valuer; type is its %T).    *)
(***************************************************************************)
NilV == [kind |-> "nil"]
BoolV(x) == [kind |-> "bool", b |-> x]
IntV(n) == [kind |-> "int", n |-> n]
\* A float64 with 1 <= |v| < 1e21, by the digits of its shortest decimal
\* form: sign, integer part, fraction digits (no trailing zero).
FloatV(neg, ip, frac) == [kind |-> "float", neg |-> neg, ip |-> ip, frac |-> frac]
StrV(s) == [kind |-> "string", s |-> s]
BytesV(s) == [kind |-> "bytes", s |-> s]
TimeV(Y, M, D, h, m, s) ==
    [kind |-> "time", year |-> Y, month |-> M, day |-> D, hour |-> h, min |-> m, sec |-> s]
ValuerV(e, dv) == [kind |-> "valuer", err |-> e, dv |-> dv]
OtherV(T) == [kind |-> "other", type |-> T]

\* What a call returns: (text, nil), ("", err), or a panic.  An error is a
\* tuple of strings, <<>> for nil.
OkRes(text) == [status |-> "ok", text |-> text, err |-> <<>>]
ErrRes(e) == [status |-> "error", text |-> <<>>, err |-> e]
PanicRes == [status |-> "panic", text |-> <<>>, err |-> <<>>]

\* errors.New("占位符个数 > 参数个数"): more placeholders than values.
ErrMorePlaceholders == <<"placeholders > vars">>
\* errors.New("占位符个数 < 参数个数"): fewer placeholders than values.
ErrFewerPlaceholders == <<"placeholders < vars">>
\* fmt.Errorf("unsupported type %T", val).
ErrUnsupported(T) == <<"unsupported type", T>>

\* The decimal digits of n >= 0.
RECURSIVE Digits(_)
Digits(n) == IF n < 10 THEN <<48 + n>> ELSE Digits(n \div 10) \o <<48 + (n % 10)>>

\* The text of n with a sign in front of every number, "+" included.
FormatIntAlwaysSigned(n) == IF n < 0 THEN <<45>> \o Digits(-n) ELSE <<43>> \o Digits(n)

\* fmt.Sprintf("%d", n).
FormatInt(n) == IF n < 0 THEN <<45>> \o Digits(-n) ELSE Digits(n)

\* strconv.FormatBool(x).
FormatBool(x) == IF x THEN <<116, 114, 117, 101>> ELSE <<102, 97, 108, 115, 101>>

\* strconv.FormatFloat(f, 'g', -1, 64) on the floats of FloatV.
FormatFloat(v) ==
    (IF v.neg THEN <<45>> ELSE <<>>) \o Digits(v.ip)
    \o (IF v.frac = <<>> THEN <<>> ELSE <<46>> \o v.frac)

\* n >= 0 in at least width digits, zero padded.
RECURSIVE Pad(_, _)
Pad(n, width) ==
    IF width <= 1 THEN Digits(n)
    ELSE IF n < 10 THEN [i \in 1..(width - 1) |-> 48] \o Digits(n)
    ELSE Pad(n \div 10, width - 1) \o <<48 + (n % 10)>>

\* fmt.Sprintf("'%s'", val.Format("2006-01-02 15:04:05")).
FormatTime(v) ==
    <<39>> \o Pad(v.year, 4) \o <<45>> \o Pad(v.month, 2) \o <<45>> \o Pad(v.day, 2)
    \o <<32>> \o Pad(v.hour, 2) \o <<58>> \o Pad(v.min, 2) \o <<58>> \o Pad(v.sec, 2)
    \o <<39>>

\* The string and []byte cases of literal: infer the type of the raw text,
\* validate with the registered validator, quote.  The possible results.
literalString(reg, str) ==
    {IF r.ok THEN OkRes(quoteString(r.s)) ELSE PanicRes :
       r \in ProcessString(reg, str, InferType(str))}

\* literal if it encoded what Value() returns by the built-in kinds only: a
\* driver.Valuer that resolves to another driver.Valuer is unsupported.
literalResolvesOnce(reg, v) ==
    LET builtin(x) ==
            CASE x.kind = "nil" -> {OkRes(<<78, 85, 76, 76>>)}
              [] x.kind = "bool" -> {OkRes(FormatBool(x.b))}
              [] x.kind = "int" -> {OkRes(FormatInt(x.n))}
              [] x.kind = "float" -> {OkRes(FormatFloat(x))}
              [] x.kind = "string" -> literalString(reg, x.s)
              [] x.kind = "bytes" -> literalString(reg, x.s)
              [] x.kind = "time" -> {OkRes(FormatTime(x))}
              [] x.kind = "valuer" -> {ErrRes(ErrUnsupported("valuer"))}
              [] x.kind = "other" -> {ErrRes(ErrUnsupported(x.type))}
    IN  IF v.kind = "valuer"
        THEN IF v.err # <<>> THEN {ErrRes(v.err)} ELSE builtin(v.dv)
        ELSE builtin(v)

\* literal(v): the possible results.
RECURSIVE literal(_, _)
literal(reg, v) ==
    CASE v.kind = "nil" -> {OkRes(<<78, 85, 76, 76>>)}
      [] v.kind = "bool" -> {OkRes(FormatBool(v.b))}
      [] v.kind = "int" -> {OkRes(FormatInt(v.n))}
      [] v.kind = "float" -> {OkRes(FormatFloat(v))}
      [] v.kind = "string" -> literalString(reg, v.s)
      [] v.kind = "bytes" -> literalString(reg, v.s)
      [] v.kind = "time" -> {OkRes(FormatTime(v))}
      [] v.kind = "valuer" ->
            IF v.err # <<>> THEN {ErrRes(v.err)} ELSE literal(reg, v.dv)
      [] v.kind = "other" -> {ErrRes(ErrUnsupported(v.type))}

(***************************************************************************)
(* Expand                                                                  *)
(***************************************************************************)

\* The loop of Expand if it went on scanning from the start of the literal
\* it has just written instead of from the character after the "?": a "?"
\* inside a literal would then take the next value.
RECURSIVE ExpandLoopRescansLiteral(_, _, _, _, _)
ExpandLoopRescansLiteral(reg, sql, vars, argI, buf) ==
    LET pos == Index(sql, <<63>>)
    IN  IF pos >= 0
        THEN IF argI >= Len(vars) THEN {ErrRes(ErrMorePlaceholders)}
             ELSE UNION {IF lit.status # "ok" THEN {lit}
                         ELSE ExpandLoopRescansLiteral(reg, lit.text \o SliceFrom(sql, pos + 1),
                                                       vars, argI + 1,
                                                       buf \o Slice(sql, 0, pos)) :
                           lit \in literal(reg, vars[argI + 1])}
        ELSE IF argI # Len(vars) THEN {ErrRes(ErrFewerPlaceholders)}
        ELSE {OkRes(buf \o sql)}

\* The loop of Expand with sql the part of the template not yet scanned,
\* argI values consumed and buf the text built so far, then the checks after
\* it.  start is 0 whenever the loop condition is evaluated, so that
\* sql[start:] is sql.  The possible results.
RECURSIVE ExpandLoop(_, _, _, _, _)
ExpandLoop(reg, sql, vars, argI, buf) ==
    LET pos == Index(sql, <<63>>)
    IN  IF pos >= 0
        THEN IF argI >= Len(vars) THEN {ErrRes(ErrMorePlaceholders)}
             ELSE UNION {IF lit.status # "ok" THEN {lit}
                         ELSE ExpandLoop(reg, SliceFrom(sql, pos + 1), vars, argI + 1,
                                         buf \o Slice(sql, 0, pos) \o lit.text) :
                           lit \in literal(reg, vars[argI + 1])}
        ELSE IF argI # Len(vars) THEN {ErrRes(ErrFewerPlaceholders)}
        ELSE {OkRes(buf \o sql)}

Expand(reg, sql, vars) == ExpandLoop(reg, sql, vars, 0, <<>>)

(***************************************************************************)
(* The inputs of the calls.                                                *)
(***************************************************************************)

\* The longest short text, template and quoted text, in tokens, and the
\* longest list of values.
MaxTokens == 3
MaxQuoteTokens == 3
MaxTemplateTokens == 3
MaxVars == 2

\* The texts made of at most n of the byte strings tokens.
RECURSIVE TextsOf(_, _)
TextsOf(tokens, n) ==
    IF n = 0 THEN {<<>>}
    ELSE LET shorter == TextsOf(tokens, n - 1)
         IN  shorter \cup {s \o tok : s \in shorter, tok \in tokens}

\* The pieces of the short texts: the comment characters, two boolean
\* spacers that share a space when adjacent (the first with an upper-case
\* letter), U+023A (its lower case is one byte longer), a line feed, a CJK
\* ideograph that is also a name pattern, and the full-width letter A.
Tokens ==
    { <<45>>,                  \* -
      <<47>>,                  \* /
      <<42>>,                  \* *
      <<65, 32, 111, 114>>,    \* "A or"
      <<32, 97, 110, 100, 32>>,\* " and "
      <<200, 186>>,            \* U+023A
      <<10>>,                  \* line feed
      <<229, 140, 186>>,       \* U+533A
      <<239, 188, 161>> }      \* U+FF21

Texts == TextsOf(Tokens, MaxTokens)

\* n times the byte x.
Repeat(x, n) == AsSeq([i \in 1..n |-> x])

\* Texts whose length is at, just below or just above the cap: the letter
\* "a" repeated, then nothing, a "-", or a comment opener whose replacement
\* is one byte longer.
LongTails == {<<>>, <<45>>, <<47, 42>>}
AroundCap(cap) == {Repeat(97, n) \o tail : n \in (cap - 2)..(cap + 1), tail \in LongTails}

\* The inputs of the validators and of InferType.
ValidatorTexts ==
    Texts \cup AroundCap(IDMaxLen) \cup AroundCap(NameMaxLen)
          \cup AroundCap(GenericMaxLen) \cup AroundCap(DescriptionMaxLen)
          \cup AroundCap(InferIDMaxLen) \cup AroundCap(InferDescriptionMinLen)

\* The inputs of sanitizeStringInput.
SanitizeTexts == Texts \cup AroundCap(SanitizeMaxLen)

\* The ParamTypes passed to ProcessString: the four registered ones and a
\* value that is not registered.
ParamTypes == {ParamTypeGeneric, ParamTypeID, ParamTypeName, ParamTypeDescription, 4}

\* The inputs of quoteString: texts of the characters it escapes and a letter.
QuoteTokens == {<<92>>, <<39>>, <<34>>, <<10>>, <<13>>, <<9>>, <<0>>, <<26>>, <<110>>}
QuoteTexts == TextsOf(QuoteTokens, MaxQuoteTokens)

\* The (old, new) pairs passed to replaceCaseInsensitive.
ReplacePairs ==
    { << <<45, 45>>, <<95, 95>> >>,       \* "--" -> "__"
      << <<45, 45>>, <<95, 45>> >>,       \* "--" -> "_-"
      << <<47, 42>>, <<47, 95, 42>> >>,   \* "/*" -> "/_*"
      << <<97>>, <<>> >>,                 \* "a"  -> ""
      << <<65>>, <<97, 97>> >>,           \* "A"  -> "aa"
      << <<32, 111, 114, 32>>, <<95, 111, 114, 95>> >> }  \* " or " -> "_or_"

\* The scalar values, and the values a driver.Valuer resolves to.
ScalarValues ==
    { NilV, BoolV(TRUE), BoolV(FALSE), IntV(0), IntV(-7), IntV(123),
      IntV(-100), IntV(2147483647),
      FloatV(FALSE, 1, <<5>>), FloatV(TRUE, 12, <<>>),
      TimeV(2024, 1, 2, 3, 4, 5),
      OtherV("struct {}") }

\* The values passed to Literal.
Values ==
    LET plain == ScalarValues \cup {StrV(s) : s \in Texts} \cup {BytesV(s) : s \in Texts}
        inner == ScalarValues \cup {StrV(<<65>>), StrV(<<65, 32, 111, 114, 32, 97, 110, 100, 32, 65>>),
                                    StrV(<<200, 186, 45, 45>>)}
        once  == {ValuerV(<<>>, dv) : dv \in inner} \cup {ValuerV(<<"valuer failed">>, NilV)}
        twice == {ValuerV(<<>>, dv) : dv \in once}
    IN  plain \cup once \cup twice

\* The templates and the values passed to Expand.
TemplateTokens == {<<63>>, <<120>>, <<39>>}            \* ? x '
Templates == TextsOf(TemplateTokens, MaxTemplateTokens)

ExpandValues ==
    { NilV, IntV(-7), BoolV(TRUE),
      StrV(<<65>>),                            \* A
      StrV(<<63>>),                         \* ?
      StrV(<<200, 186, 45, 45>>),           \* U+023A then --
      StrV(<<65, 32, 111, 114, 32, 97, 110, 100, 32, 65>>),
      ValuerV(<<"valuer failed">>, NilV),
      ValuerV(<<>>, IntV(123)),
      OtherV("struct {}") }

RECURSIVE SeqsOf(_, _)
SeqsOf(S, n) ==
    IF n = 0 THEN {<<>>}
    ELSE LET shorter == SeqsOf(S, n - 1)
         IN  shorter \cup {Append(q, x) : q \in shorter, x \in S}

VarLists == SeqsOf(ExpandValues, MaxVars)

(***************************************************************************)
(* The state machine.  The only state of the package that outlives a call  *)
(* is the registry of globalProcessor, built when the package is           *)
(* initialized.  A call runs to completion on its own inputs; op, arg and  *)
(* ret record the call in progress and what it returns, and Return hands   *)
(* the result back to the caller.                                          *)
(***************************************************************************)
VARIABLES validators, op, arg, ret

(***************************************************************************)
(* Callers that run at the same time.  processor is the registry of a      *)
(* TypeAwareProcessor a caller has built with NewTypeAwareProcessor, on    *)
(* which the exported RegisterValidator, GetValidator and ProcessString    *)
(* can be called; calls[c] is the call the caller c has in progress, with  *)
(* the locals of the call and the place it has reached (template is the    *)
(* sql the call was given, which the loop of Expand cuts); fatal is set when *)
(* the run time has ended the process on a map read or written while it    *)
(* was being written.                                                      *)
(***************************************************************************)
VARIABLES processor, calls, fatal

vars == <<validators, op, arg, ret, processor, calls, fatal>>

\* ret of a call that returns a text, or panics.
TextRes(r) == IF r.ok THEN OkRes(r.s) ELSE PanicRes

\* ret of InferType.
TypeRes(t) == [status |-> "ok", text |-> <<>>, err |-> <<>>, type |-> t]

\* The callers, and a caller with no call in progress.
MaxCallers == 2
Callers == 1..MaxCallers
NoCall ==
    [op |-> "idle", pc |-> "idle", proc |-> "none", template |-> <<>>, sql |-> <<>>, vars |-> <<>>,
     argI |-> 0, buf |-> <<>>, value |-> <<>>, paramType |-> ParamTypeGeneric,
     validator |-> "none", res |-> OkRes(<<>>)]

Init ==
    /\ validators = NewTypeAwareProcessor
    /\ op = "idle"
    /\ arg = <<>>
    /\ ret = <<>>
    /\ processor = NewTypeAwareProcessor
    /\ calls = [c \in Callers |-> NoCall]
    /\ fatal = FALSE

CallExpand ==
    /\ op = "idle"
    /\ \E sql \in Templates, vs \in VarLists :
         /\ arg' = [sql |-> sql, vars |-> vs]
         /\ ret' \in Expand(validators, sql, vs)
    /\ op' = "Expand"
    /\ UNCHANGED <<validators, processor, calls, fatal>>

CallLiteral ==
    /\ op = "idle"
    /\ \E v \in Values :
         /\ arg' = [v |-> v]
         /\ ret' \in literal(validators, v)
    /\ op' = "Literal"
    /\ UNCHANGED <<validators, processor, calls, fatal>>

CallInferType ==
    /\ op = "idle"
    /\ \E value \in ValidatorTexts :
         /\ arg' = [value |-> value]
         /\ ret' = TypeRes(InferType(value))
    /\ op' = "InferType"
    /\ UNCHANGED <<validators, processor, calls, fatal>>

CallProcessString ==
    /\ op = "idle"
    /\ \E value \in ValidatorTexts, paramType \in ParamTypes :
         /\ arg' = [value |-> value, paramType |-> paramType]
         /\ \E r \in ProcessString(validators, value, paramType) : ret' = TextRes(r)
    /\ op' = "ProcessString"
    /\ UNCHANGED <<validators, processor, calls, fatal>>

\* v.Validate(value) called on a validator directly.
CallValidate(v) ==
    /\ op = "idle"
    /\ \E value \in ValidatorTexts :
         /\ arg' = [validator |-> v, value |-> value]
         /\ \E r \in Validate(v, value) : ret' = TextRes(r)
    /\ op' = "Validate"
    /\ UNCHANGED <<validators, processor, calls, fatal>>

CallSanitizeStringInput ==
    /\ op = "idle"
    /\ \E s \in SanitizeTexts :
         /\ arg' = [s |-> s]
         /\ \E r \in sanitizeStringInput(s) : ret' = TextRes(r)
    /\ op' = "sanitizeStringInput"
    /\ UNCHANGED <<validators, processor, calls, fatal>>

CallReplaceCaseInsensitive ==
    /\ op = "idle"
    /\ \E s \in Texts, p \in ReplacePairs :
         /\ arg' = [s |-> s, old |-> p[1], new |-> p[2]]
         /\ ret' = TextRes(replaceCaseInsensitive(s, p[1], p[2]))
    /\ op' = "replaceCaseInsensitive"
    /\ UNCHANGED <<validators, processor, calls, fatal>>

CallQuoteString ==
    /\ op = "idle"
    /\ \E s \in QuoteTexts :
         /\ arg' = [s |-> s]
         /\ ret' = OkRes(quoteString(s))
    /\ op' = "quoteString"
    /\ UNCHANGED <<validators, processor, calls, fatal>>

Return ==
    /\ op # "idle"
    /\ op' = "idle"
    /\ arg' = <<>>
    /\ ret' = <<>>
    /\ UNCHANGED <<validators, processor, calls, fatal>>

Next ==
    \/ CallExpand
    \/ CallLiteral
    \/ CallInferType
    \/ CallProcessString
    \/ \E v \in Validators : CallValidate(v)
    \/ CallSanitizeStringInput
    \/ CallReplaceCaseInsensitive
    \/ CallQuoteString
    \/ Return

Spec == Init /\ [][Next]_vars

(***************************************************************************)
(* Calls that run at the same time: each caller takes the steps of its     *)
(* call one at a time, and a step reads the registry as it is then.        *)
(***************************************************************************)

\* The inputs of the callers: the text "A or and A", the template "??"
\* with one value (a placeholder too many), with two values the first of
\* which is the text "?", and with a value of an unsupported type, the type
\* ID and a type that is not one of the four.
ConcurrentTexts == {<<65, 32, 111, 114, 32, 97, 110, 100, 32, 65>>}
ConcurrentTemplates == {<<63, 63>>}
ConcurrentVarLists == {<<StrV(<<65>>)>>, <<StrV(<<63>>), NilV>>, <<OtherV("struct {}")>>}
ConcurrentValues == {StrV(s) : s \in ConcurrentTexts}
ConcurrentParamTypes == {ParamTypeID, 4}
Processors == {"globalProcessor", "processor"}
RegisteredValidators == {"IDValidator"} \cup CallerValidators

\* The registry of the processor named proc.
RegistryOf(proc) == IF proc = "globalProcessor" THEN validators ELSE processor

\* The validators RegisterValidator is writing to processor at this moment.
Writing == {calls[d].validator : d \in {e \in Callers : calls[e].pc = "write"}}

\* The caller c goes from the place from to the place to of its call, with
\* the locals changed as in with; nothing else changes.
Goes(c, with) ==
    /\ ~fatal
    /\ calls' = [calls EXCEPT ![c] = with]
    /\ UNCHANGED <<validators, op, arg, ret, processor, fatal>>

StartExpand(c) ==
    /\ calls[c].pc = "idle"
    /\ \E sql \in ConcurrentTemplates, vs \in ConcurrentVarLists :
         Goes(c, [NoCall EXCEPT !.op = "Expand", !.pc = "scan", !.template = sql,
                                !.sql = sql, !.vars = vs])

\* One evaluation of the loop condition of Expand and of the body up to the
\* call of literal, or of what follows the loop.
StepExpand(c) ==
    LET call == calls[c]
        pos == Index(call.sql, <<63>>)
        done(r) == [call EXCEPT !.pc = "done", !.res = r]
    IN  /\ call.op = "Expand" /\ call.pc = "scan"
        /\ IF pos >= 0
           THEN IF call.argI >= Len(call.vars) THEN Goes(c, done(ErrRes(ErrMorePlaceholders)))
                ELSE Goes(c, [call EXCEPT !.pc = "literal",
                                          !.buf = call.buf \o Slice(call.sql, 0, pos),
                                          !.sql = SliceFrom(call.sql, pos + 1)])
           ELSE IF call.argI # Len(call.vars) THEN Goes(c, done(ErrRes(ErrFewerPlaceholders)))
                ELSE Goes(c, done(OkRes(call.buf \o call.sql)))

StartLiteral(c) ==
    /\ calls[c].pc = "idle"
    /\ \E v \in ConcurrentValues :
         Goes(c, [NoCall EXCEPT !.op = "Literal", !.pc = "literal", !.vars = <<v>>])

\* literal(vars[argI]), called by Literal or by the loop of Expand, which
\* then returns its error or writes its text and goes on.  It reads
\* globalProcessor.
StepLiteral(c) ==
    LET call == calls[c]
    IN  /\ call.pc = "literal"
        /\ \E lit \in literal(validators, call.vars[call.argI + 1]) :
             IF call.op = "Literal" \/ lit.status # "ok"
             THEN Goes(c, [call EXCEPT !.pc = "done", !.res = lit])
             ELSE Goes(c, [call EXCEPT !.pc = "scan",
                                       !.buf = call.buf \o lit.text,
                                       !.argI = call.argI + 1])

StartInferType(c) ==
    /\ calls[c].pc = "idle"
    /\ \E value \in ConcurrentTexts :
         Goes(c, [NoCall EXCEPT !.op = "InferType", !.pc = "run", !.value = value])

StepInferType(c) ==
    /\ calls[c].op = "InferType" /\ calls[c].pc = "run"
    /\ Goes(c, [calls[c] EXCEPT !.pc = "done", !.paramType = InferType(calls[c].value)])

StartGetValidator(c) ==
    /\ calls[c].pc = "idle"
    /\ \E proc \in Processors, paramType \in ConcurrentParamTypes :
         Goes(c, [NoCall EXCEPT !.op = "GetValidator", !.pc = "lookup",
                                !.proc = proc, !.paramType = paramType])

StartProcessString(c) ==
    /\ calls[c].pc = "idle"
    /\ \E proc \in Processors, value \in ConcurrentTexts, paramType \in ConcurrentParamTypes :
         Goes(c, [NoCall EXCEPT !.op = "ProcessString", !.pc = "lookup", !.proc = proc,
                                !.value = value, !.paramType = paramType])

\* tap.validators[paramType] in GetValidator, called directly or by
\* ProcessString.  A read of the map while RegisterValidator writes it is a
\* data race: it sees the map before or after the write, or the run time
\* ends the process.
Lookup(c) ==
    LET call == calls[c]
        next == IF call.op = "GetValidator" THEN "done" ELSE "validate"
        regs == {RegistryOf(call.proc)} \cup
                (IF call.proc = "processor"
                 THEN {RegisterValidator(processor, w) : w \in Writing} ELSE {})
    IN  /\ call.pc = "lookup"
        /\ \/ \E reg \in regs :
                 Goes(c, [call EXCEPT !.pc = next,
                                      !.validator = GetValidator(reg, call.paramType)])
           \/ /\ call.proc = "processor" /\ Writing # {}
              /\ ~fatal
              /\ fatal' = TRUE
              /\ UNCHANGED <<validators, op, arg, ret, processor, calls>>

\* validator.Validate(value) in ProcessString.
StepValidate(c) ==
    /\ calls[c].pc = "validate"
    /\ \E r \in Validate(calls[c].validator, calls[c].value) :
         Goes(c, [calls[c] EXCEPT !.pc = "done", !.res = TextRes(r)])

\* RegisterValidator on the processor of the caller starts to write the map.
StartRegisterValidator(c) ==
    /\ calls[c].pc = "idle"
    /\ \E v \in RegisteredValidators :
         Goes(c, [NoCall EXCEPT !.op = "RegisterValidator", !.pc = "write",
                                !.proc = "processor", !.validator = v])

\* The write of RegisterValidator is done; with another write of the same
\* map in progress the run time can end the process instead.
StepRegisterValidator(c) ==
    /\ calls[c].pc = "write"
    /\ ~fatal
    /\ \/ /\ processor' = RegisterValidator(processor, calls[c].validator)
          /\ calls' = [calls EXCEPT ![c].pc = "done"]
          /\ UNCHANGED <<validators, op, arg, ret, fatal>>
       \/ /\ Writing # {calls[c].validator} \/ \E d \in Callers \ {c} : calls[d].pc = "write"
          /\ fatal' = TRUE
          /\ UNCHANGED <<validators, op, arg, ret, processor, calls>>

\* The call of c returns to its caller.
ReturnTo(c) ==
    /\ calls[c].pc = "done"
    /\ Goes(c, NoCall)

NextConcurrent ==
    \E c \in Callers :
        \/ StartExpand(c)
        \/ StepExpand(c)
        \/ StartLiteral(c)
        \/ StepLiteral(c)
        \/ StartInferType(c)
        \/ StepInferType(c)
        \/ StartGetValidator(c)
        \/ StartProcessString(c)
        \/ Lookup(c)
        \/ StepValidate(c)
        \/ StartRegisterValidator(c)
        \/ StepRegisterValidator(c)
        \/ ReturnTo(c)

SpecConcurrent == Init /\ [][NextConcurrent]_vars

\* The calls of one part of the package alone.
NextExpand == CallExpand \/ Return
SpecExpand == Init /\ [][NextExpand]_vars

NextLiteral == CallLiteral \/ Return
SpecLiteral == Init /\ [][NextLiteral]_vars

NextProcess == CallProcessString \/ Return
SpecProcess == Init /\ [][NextProcess]_vars

NextSanitize == CallSanitizeStringInput \/ Return
SpecSanitize == Init /\ [][NextSanitize]_vars

NextID == CallValidate("IDValidator") \/ Return
SpecID == Init /\ [][NextID]_vars

NextName == CallValidate("NameValidator") \/ Return
SpecName == Init /\ [][NextName]_vars

NextDescription == CallValidate("DescriptionValidator") \/ Return
SpecDescription == Init /\ [][NextDescription]_vars

NextInfer == CallInferType \/ Return
SpecInfer == Init /\ [][NextInfer]_vars

NextQuote == CallQuoteString \/ Return
SpecQuote == Init /\ [][NextQuote]_vars

NextReplace == CallReplaceCaseInsensitive \/ Return
SpecReplace == Init /\ [][NextReplace]_vars

(***************************************************************************)
(* Properties of Expand.                                                   *)
(***************************************************************************)

\* The number of "?" in sql.
PlaceholderCount(sql) == Cardinality({i \in 1..Len(sql) : sql[i] = 63})

\* sql read character by character from position i, with the k-th "?" (and
\* the ones after it) replaced by texts[k], texts[k + 1], ...
RECURSIVE Substituted(_, _, _, _)
Substituted(sql, i, texts, k) ==
    IF i > Len(sql) THEN <<>>
    ELSE IF sql[i] = 63 THEN texts[k] \o Substituted(sql, i + 1, texts, k + 1)
    ELSE <<sql[i]>> \o Substituted(sql, i + 1, texts, k)

\* The texts literal can return for v, and the ways it can fail.
LiteralTexts(v) == {r.text : r \in {x \in literal(validators, v) : x.status = "ok"}}
LiteralFailures(v) == {x \in literal(validators, v) : x.status # "ok"}

\* The ways of choosing one literal text for each value of vs.
LiteralChoices(vs) ==
    {f \in [1..Len(vs) -> UNION {LiteralTexts(vs[i]) : i \in 1..Len(vs)}] :
        \A i \in 1..Len(vs) : f[i] \in LiteralTexts(vs[i])}

\* The call in progress is an Expand whose template has as many "?" as
\* there are values.
ExpandArityMatches ==
    /\ op = "Expand"
    /\ PlaceholderCount(arg.sql) = Len(arg.vars)

\* What Expand does when the template has exactly k "?" and k values are
\* supplied: it ends as the first value, in order, whose literal does not
\* return a text ends (the same error, or the same panic, and no text); when
\* literal returns a text for all k values Expand succeeds, and its result
\* is the template with the i-th "?" replaced by a literal of the i-th value
\* and every other character kept in place.
ExpandSubstitutesInOrder ==
    ExpandArityMatches =>
        /\ ret.status = "ok" =>
              \E f \in LiteralChoices(arg.vars) :
                  ret.text = Substituted(arg.sql, 1, f, 1)
        /\ ret.status # "ok" =>
              \E i \in 1..Len(arg.vars) :
                  /\ ret \in LiteralFailures(arg.vars[i])
                  /\ \A j \in 1..(i - 1) : LiteralTexts(arg.vars[j]) # {}
        /\ (\A i \in 1..Len(arg.vars) : LiteralFailures(arg.vars[i]) = {})
              => ret.status = "ok"

\* C1: with exactly k "?" in the template and exactly k values, Expand
\* succeeds, and its result is the template with the i-th "?" replaced by the
\* literal of the i-th value and the text between the "?" kept as it is.
C1_ExpandSucceedsOnMatchingArity ==
    ExpandArityMatches =>
        /\ ret.status = "ok"
        /\ \E f \in LiteralChoices(arg.vars) : ret.text = Substituted(arg.sql, 1, f, 1)

\* C2: when the number of "?" differs from the number of values, Expand
\* returns an error and the empty string.
C2_ArityMismatchIsError ==
    (op = "Expand" /\ PlaceholderCount(arg.sql) # Len(arg.vars)) =>
        /\ ret.status = "error"
        /\ ret.err # <<>>
        /\ ret.text = <<>>

(***************************************************************************)
(* Properties of the validators and of sanitizeStringInput.                *)
(***************************************************************************)

\* A validator is running, called directly or through ProcessString, and
\* which one.
ValidatorCalled == op \in {"Validate", "ProcessString"}
CalledValidator ==
    IF op = "Validate" THEN arg.validator ELSE GetValidator(validators, arg.paramType)

\* The documented cap of each sanitizer.
CapOf(v) ==
    CASE v = "IDValidator" -> IDMaxLen
      [] v = "NameValidator" -> NameMaxLen
      [] v = "GenericValidator" -> GenericMaxLen
      [] v = "DescriptionValidator" -> DescriptionMaxLen

\* C3: the output of each sanitizer is never longer than its cap: 100, 500,
\* 2000, 10000 for the ID, Name, Generic and Description validators, 65535
\* for sanitizeStringInput.
C3_OutputWithinCap ==
    /\ (ValidatorCalled /\ ret.status = "ok")
          => Len(ret.text) <= CapOf(CalledValidator)
    /\ (op = "sanitizeStringInput" /\ ret.status = "ok")
          => Len(ret.text) <= SanitizeMaxLen

\* C4: Validate and ProcessString return a string for every text and every
\* ParamType; they never panic.
C4_ValidationNeverPanics ==
    ValidatorCalled => ret.status = "ok"

\* C5: the output of Validate is the same for every order in which the
\* entries of the pattern table are visited.
C5_ValidateIsAFunction ==
    ValidatorCalled =>
        \A r \in Validate(CalledValidator, arg.value) : ret = TextRes(r)

\* C6: the output of DescriptionValidator.Validate contains none of the
\* comment markers "--", "/*" and "*/".
C6_DescriptionHasNoCommentMarker ==
    (ValidatorCalled /\ CalledValidator = "DescriptionValidator" /\ ret.status = "ok")
        => /\ ~Contains(ret.text, <<45, 45>>)
           /\ ~Contains(ret.text, <<47, 42>>)
           /\ ~Contains(ret.text, <<42, 47>>)

\* The ID validator is running.
IDValidatorCalled == ValidatorCalled /\ CalledValidator = "IDValidator"

\* The k-th character of the output of the ID validator for the rune r.
IDCharFor(r) == IF IsIDRune(r) THEN r ELSE 95

\* C7 as amended: for every input text IDValidator.Validate returns text of
\* at most 100 bytes that contains only characters of [A-Za-z0-9_-]: of the
\* NFKC-normalized input, an allowed character passes through unchanged and
\* every other character is replaced by one "_", and the result is cut to
\* its first 100 characters.
C7_IDAllowList ==
    IDValidatorCalled =>
        LET rs == Runes(NFKC(arg.value))
        IN  /\ ret.status = "ok"
            /\ Len(ret.text) <= 100
            /\ \A k \in 1..Len(ret.text) : IsIDRune(ret.text[k])
            /\ Len(ret.text) = (IF Len(rs) > 100 THEN 100 ELSE Len(rs))
            /\ \A k \in 1..Len(ret.text) : ret.text[k] = IDCharFor(rs[k].r)

\* C7, witness: the ID validator has returned for an input with an allowed
\* character, a full-width letter and a character that is not allowed.
C7_Witness ==
    /\ IDValidatorCalled
    /\ arg.value = <<45, 239, 188, 161, 42>>
    /\ ret.status = "ok"

\* C7 as stated: of the input itself, an allowed character passes through
\* unchanged in place and every other character is replaced by one "_".
C7_Original ==
    IDValidatorCalled =>
        LET rs == Runes(arg.value)
        IN  /\ ret.status = "ok"
            /\ Len(ret.text) <= 100
            /\ \A k \in 1..Len(ret.text) : IsIDRune(ret.text[k])
            /\ Len(ret.text) = (IF Len(rs) > 100 THEN 100 ELSE Len(rs))
            /\ \A k \in 1..Len(ret.text) : ret.text[k] = IDCharFor(rs[k].r)

(***************************************************************************)
(* Properties of literal, InferType and quoteString.                       *)
(***************************************************************************)

\* C8: for a string or a byte sequence literal succeeds, and its text is
\* quoteString of the output of the validator registered for InferType of
\* the raw text; a byte sequence is encoded as the string of its bytes.
C8_LiteralOfString ==
    (op = "Literal" /\ arg.v.kind \in {"string", "bytes"}) =>
        /\ ret.status = "ok"
        /\ \E r \in Validate(GetValidator(validators, InferType(arg.v.s)), arg.v.s) :
              r.ok /\ ret.text = quoteString(r.s)
        /\ ret \in literal(validators, StrV(arg.v.s))

\* value is made of the characters [A-Za-z0-9_-] only.
IDCharset(value) == \A i \in 1..Len(value) : IsIDRune(value[i])

\* value contains a CJK ideograph of the three ranges, or a name pattern.
LooksLikeName(value) ==
    \/ \E k \in 1..Len(Runes(value)) : IsCJK(Runes(value)[k].r)
    \/ \E j \in DOMAIN namePatterns : Contains(value, namePatterns[j])

\* C9: InferType classifies by first match: empty -> Generic; at most 100
\* bytes, all of [A-Za-z0-9_-] -> ID; more than 500 bytes, or a line feed or
\* a carriage return -> Description; a CJK ideograph or a name pattern ->
\* Name; otherwise Generic.  A text with a line break and CJK is Description,
\* an ID-charset text of 101 to 500 bytes is Generic, and the result is
\* always one of the four types.
C9_InferTypeOrder ==
    op = "InferType" =>
        LET value == arg.value
            breaks == 10 \in Bytes(value) \/ 13 \in Bytes(value)
        IN  /\ ret.type \in {ParamTypeGeneric, ParamTypeID, ParamTypeName,
                             ParamTypeDescription}
            /\ value = <<>> => ret.type = ParamTypeGeneric
            /\ (value # <<>> /\ Len(value) <= 100 /\ IDCharset(value))
                  => ret.type = ParamTypeID
            /\ (value # <<>> /\ ~(Len(value) <= 100 /\ IDCharset(value)))
                  => IF Len(value) > 500 \/ breaks THEN ret.type = ParamTypeDescription
                     ELSE IF LooksLikeName(value) THEN ret.type = ParamTypeName
                     ELSE ret.type = ParamTypeGeneric
            /\ (breaks /\ LooksLikeName(value)) => ret.type = ParamTypeDescription
            /\ (IDCharset(value) /\ Len(value) >= 101 /\ Len(value) <= 500)
                  => ret.type = ParamTypeGeneric

\* C9, witness: InferType has classified a text with both a line feed and a
\* CJK ideograph.
C9_Witness ==
    /\ op = "InferType"
    /\ 10 \in Bytes(arg.value)
    /\ LooksLikeName(arg.value)
    /\ ret.type = ParamTypeDescription

\* The escape sequence of quoteString for the byte c.
EscapeOf(c) ==
    CASE c = 92 -> <<92, 92>>
      [] c = 39 -> <<39, 39>>
      [] c = 34 -> <<92, 34>>
      [] c = 10 -> <<92, 110>>
      [] c = 13 -> <<92, 114>>
      [] c = 9 -> <<92, 116>>
      [] c = 0 -> <<92, 48>>
      [] c = 26 -> <<92, 90>>
      [] OTHER -> <<c>>

\* Reading q from position i as a sequence of escape sequences and plain
\* characters: the text they stand for, or <<-1>> when q has a raw special
\* character, a lone single quote, or a backslash that starts none of the
\* escape sequences.
RECURSIVE Unescape(_, _)
Unescape(q, i) ==
    IF i > Len(q) THEN <<>>
    ELSE LET c == q[i]
             d == IF i < Len(q) THEN q[i + 1] ELSE -1
             two(x) == LET rest == Unescape(q, i + 2)
                       IN  IF rest = <<-1>> THEN rest ELSE <<x>> \o rest
         IN  IF c = 92
             THEN CASE d = 92 -> two(92)
                    [] d = 34 -> two(34)
                    [] d = 110 -> two(10)
                    [] d = 114 -> two(13)
                    [] d = 116 -> two(9)
                    [] d = 48 -> two(0)
                    [] d = 90 -> two(26)
                    [] OTHER -> <<-1>>
             ELSE IF c = 39 THEN (IF d = 39 THEN two(39) ELSE <<-1>>)
             ELSE IF c \in {34, 10, 13, 9, 0, 26} THEN <<-1>>
             ELSE LET rest == Unescape(q, i + 1)
                  IN  IF rest = <<-1>> THEN rest ELSE <<c>> \o rest

\* C10: one application of quoteString makes a text safe between single
\* quotes: the result starts and ends with a single quote; between them
\* there is no raw line feed, carriage return, tab, NUL or 0x1A, the text
\* reads as a sequence of doubled single quotes, doubled backslashes, the
\* escapes \" \n \r \t \0 \Z and plain characters (so every run of single
\* quotes is even, every double quote follows its escaping backslash, every
\* backslash is half of a pair or the prefix of an escape), it stands for the
\* input, and it is the character-by-character mapping of the input.
C10_QuoteStringIsSafe ==
    op = "quoteString" =>
        LET q == ret.text
            inner == SubSeq(q, 2, Len(q) - 1)
        IN  /\ Len(q) >= 2
            /\ q[1] = 39
            /\ q[Len(q)] = 39
            /\ Bytes(inner) \cap {10, 13, 9, 0, 26} = {}
            /\ Unescape(inner, 1) = arg.s
            /\ inner = Concat([i \in 1..Len(arg.s) |-> EscapeOf(arg.s[i])])

\* C10, witness: quoteString has quoted a text with a backslash, a double
\* quote and a line feed.
C10_Witness ==
    /\ op = "quoteString"
    /\ {92, 34, 10} \subseteq Bytes(arg.s)
    /\ Len(ret.text) = 8

(***************************************************************************)
(* The order of the errors of Expand, and the placeholders it counts.      *)
(***************************************************************************)

\* The placeholders of the call for which a value is supplied, and those of
\* them whose value literal cannot encode.
EncodedPlaceholders ==
    1..(IF PlaceholderCount(arg.sql) < Len(arg.vars)
        THEN PlaceholderCount(arg.sql) ELSE Len(arg.vars))
FailingPlaceholders == {i \in EncodedPlaceholders : LiteralTexts(arg.vars[i]) = {}}

\* What Expand does with values literal cannot encode: it ends as literal
\* ends on the first of them in scan order (its error, or its panic), with
\* no text, whatever the number of values; the arity errors are returned
\* only when every placeholder that has a value was encoded.
ExpandFailsAtFirstFailure ==
    op = "Expand" =>
        /\ FailingPlaceholders # {} => ret \in LiteralFailures(arg.vars[Min(FailingPlaceholders)])
        /\ ret \in {ErrRes(ErrFewerPlaceholders), ErrRes(ErrMorePlaceholders)}
              => FailingPlaceholders = {}

\* C11: when the encoding of the value of some placeholder fails, Expand
\* returns the error of the first such encoding in scan order and the empty
\* text, also when the number of values differs from the number of
\* placeholders; the error for more values than placeholders is returned
\* only when every placeholder present was encoded.
C11_ErrorsInScanOrder ==
    op = "Expand" =>
        /\ FailingPlaceholders # {} =>
              /\ ret.status = "error"
              /\ ret.text = <<>>
              /\ ret \in LiteralFailures(arg.vars[Min(FailingPlaceholders)])
        /\ ret = ErrRes(ErrFewerPlaceholders) =>
              /\ Len(arg.vars) > PlaceholderCount(arg.sql)
              /\ FailingPlaceholders = {}

\* C16: the text substituted for a placeholder is not scanned again: a
\* successful Expand has consumed as many values as the template has "?",
\* and its result is the template with each of these "?" replaced by the
\* literal of its value, a "?" inside a literal being kept as text.
C16_LiteralsAreNotRescanned ==
    (op = "Expand" /\ ret.status = "ok") =>
        /\ Len(arg.vars) = PlaceholderCount(arg.sql)
        /\ \E f \in LiteralChoices(arg.vars) :
              /\ ret.text = Substituted(arg.sql, 1, f, 1)
              /\ PlaceholderCount(ret.text)
                    = PlaceholderCount(Concat([i \in 1..Len(arg.vars) |-> f[i]]))

\* C16, witness: an Expand of two placeholders has succeeded with a first
\* value whose literal contains a "?", and the "?" is in the result.
C16_Witness ==
    /\ op = "Expand"
    /\ ret.status = "ok"
    /\ PlaceholderCount(arg.sql) = 2
    /\ arg.vars[1] = StrV(<<63>>)
    /\ PlaceholderCount(ret.text) >= 1

(***************************************************************************)
(* Properties of replaceCaseInsensitive.                                   *)
(***************************************************************************)

\* s has an upper-case letter.
HasUpper(s) == ToLower(s) # s

\* s from the offset i on, with the occurrences of old found left to right
\* without regard to case, one after the end of the other, replaced by new,
\* and the rest as it is in s.
RECURSIVE ReplaceFoldedFrom(_, _, _, _)
ReplaceFoldedFrom(s, old, new, i) ==
    IF i + Len(old) > Len(s) THEN SliceFrom(s, i)
    ELSE IF ToLower(Slice(s, i, i + Len(old))) = ToLower(old)
         THEN new \o ReplaceFoldedFrom(s, old, new, i + Len(old))
         ELSE <<s[i + 1]>> \o ReplaceFoldedFrom(s, old, new, i + 1)

\* C15: replaceCaseInsensitive(s, old, new) with old not empty returns s
\* with the occurrences of old, found without regard to case from left to
\* right and not overlapping, replaced by new and everything else as it is
\* in s; when neither s nor old has an upper-case letter this is
\* strings.ReplaceAll(s, old, new).
C15_ReplacesFoldedOccurrences ==
    (op = "replaceCaseInsensitive" /\ arg.old # <<>>) =>
        /\ ret.status = "ok"
        /\ ret.text = ReplaceFoldedFrom(arg.s, arg.old, arg.new, 0)
        /\ (~HasUpper(arg.s) /\ ~HasUpper(arg.old))
              => ret.text = ReplaceAll(arg.s, arg.old, arg.new)

\* The same for the texts lower-casing leaves at their length.
ReplacesFoldedWhenLowerKeepsLength ==
    (op = "replaceCaseInsensitive" /\ arg.old # <<>>
        /\ \A i \in 0..Len(arg.s) : Len(ToLower(Slice(arg.s, 0, i))) = i) =>
        /\ ret.status = "ok"
        /\ ret.text = ReplaceFoldedFrom(arg.s, arg.old, arg.new, 0)
        /\ (~HasUpper(arg.s) /\ ~HasUpper(arg.old))
              => ret.text = ReplaceAll(arg.s, arg.old, arg.new)

(***************************************************************************)
(* Properties of literal: delegation to driver.Valuer, and the kinds.      *)
(***************************************************************************)

\* The value at the end of the delegations of v: v itself when it is not a
\* driver.Valuer or when its Value() fails, otherwise the end of the
\* delegations of the value it resolves to.
RECURSIVE Resolved(_)
Resolved(v) ==
    IF v.kind = "valuer" /\ v.err = <<>> THEN Resolved(v.dv) ELSE v

\* C12: for a driver.Valuer, literal returns the error of Value() as it is,
\* with the empty text, when Value() fails; otherwise what literal returns
\* for the resolved value, which is followed in the same way when it is a
\* driver.Valuer again and is an unsupported type when it is no known kind.
C12_ValuerDelegation ==
    (op = "Literal" /\ arg.v.kind = "valuer") =>
        /\ arg.v.err # <<>> =>
              /\ ret.status = "error"
              /\ ret.err = arg.v.err
              /\ ret.text = <<>>
        /\ arg.v.err = <<>> =>
              /\ ret \in literal(validators, arg.v.dv)
              /\ LET w == Resolved(arg.v)
                 IN  CASE w.kind = "valuer" -> ret = ErrRes(w.err)
                       [] w.kind = "other" -> ret = ErrRes(ErrUnsupported(w.type))
                       [] w.kind = "int" -> ret = OkRes(FormatInt(w.n))
                       [] w.kind = "string" ->
                            \E r \in ProcessString(validators, w.s, InferType(w.s)) :
                                ret = (IF r.ok THEN OkRes(quoteString(r.s)) ELSE PanicRes)
                       [] OTHER -> ret.status = "ok"

\* C12, witness: literal has encoded a driver.Valuer whose value is a
\* driver.Valuer again, down to a number.
C12_Witness ==
    /\ op = "Literal"
    /\ arg.v.kind = "valuer" /\ arg.v.err = <<>>
    /\ arg.v.dv.kind = "valuer" /\ arg.v.dv.err = <<>>
    /\ arg.v.dv.dv.kind = "int"
    /\ ret.status = "ok"

\* The number the decimal digits ds stand for.
RECURSIVE DecimalValue(_)
DecimalValue(ds) ==
    IF ds = <<>> THEN 0 ELSE 10 * DecimalValue(SubSeq(ds, 1, Len(ds) - 1)) + (ds[Len(ds)] - 48)

\* text is n in base 10: a "-" exactly when n is negative, then the digits
\* of its absolute value with no leading zero.
IsDecimalOf(text, n) ==
    LET ds == IF text # <<>> /\ text[1] = 45 THEN Tail(text) ELSE text
    IN  /\ (n < 0) <=> (text # <<>> /\ text[1] = 45)
        /\ ds # <<>>
        /\ \A i \in 1..Len(ds) : ds[i] \in 48..57
        /\ Len(ds) > 1 => ds[1] # 48
        /\ DecimalValue(ds) = (IF n < 0 THEN -n ELSE n)

\* C13: literal of nil is NULL, of a boolean true or false in lower case
\* without quotes, of an integer its base-10 text with a sign only when it
\* is negative; a value of no built-in kind that is no driver.Valuer gives
\* the unsupported-type error, which names the type, and the empty text.
C13_LiteralByKind ==
    op = "Literal" =>
        /\ arg.v.kind = "nil" => ret = OkRes(<<78, 85, 76, 76>>)
        /\ arg.v.kind = "bool" =>
              ret = OkRes(IF arg.v.b THEN <<116, 114, 117, 101>> ELSE <<102, 97, 108, 115, 101>>)
        /\ arg.v.kind = "int" =>
              /\ ret.status = "ok"
              /\ ret.err = <<>>
              /\ IsDecimalOf(ret.text, arg.v.n)
        /\ arg.v.kind = "other" =>
              /\ ret.status = "error"
              /\ ret.text = <<>>
              /\ ret.err = <<"unsupported type", arg.v.type>>

\* C13, witness: literal has encoded a negative integer of three digits.
C13_Witness ==
    /\ op = "Literal"
    /\ arg.v.kind = "int"
    /\ arg.v.n <= -100
    /\ ret.status = "ok"

(***************************************************************************)
(* Properties of the registry under calls that run at the same time.       *)
(***************************************************************************)

\* The four types a processor is built with, and the validator of the
\* package for each.
BuiltinTypes == {ParamTypeGeneric, ParamTypeID, ParamTypeName, ParamTypeDescription}
BuiltinFor(t) == CHOOSE v \in Validators : GetType(v) = t

\* reg is as NewTypeAwareProcessor builds it: exactly the four types, each
\* with the validator of the package that reports this type.
AsBuilt(reg) ==
    /\ DOMAIN reg = BuiltinTypes
    /\ \A t \in BuiltinTypes : reg[t] = BuiltinFor(t)

\* The call of c has returned what it returns when it runs alone on a
\* processor that is as built.
ReturnsAsAlone(c) ==
    LET call == calls[c]
    IN  CASE call.op = "Expand" -> call.res \in Expand(NewTypeAwareProcessor, call.template, call.vars)
          [] call.op = "Literal" -> call.res \in literal(NewTypeAwareProcessor, call.vars[1])
          [] call.op = "InferType" -> call.paramType = InferType(call.value)
          [] call.op = "GetValidator" ->
                call.validator = (IF call.paramType \in BuiltinTypes
                                  THEN BuiltinFor(call.paramType) ELSE "GenericValidator")
          [] call.op = "ProcessString" ->
                \E r \in ProcessString(NewTypeAwareProcessor, call.value, call.paramType) :
                    call.res = TextRes(r)
          [] OTHER -> TRUE

\* C14 as amended: the registry of the package, globalProcessor, stays as
\* built whatever calls run at the same time, and Expand, Literal, InferType
\* and the GetValidator and ProcessString of globalProcessor return what
\* they return alone.  A processor the caller has built can be written by
\* the exported RegisterValidator: it keeps the four types and every type
\* it has maps to a validator that reports this type, its GetValidator
\* returns a validator of the type asked for or of the type Generic, and
\* the process can end only after a write of that processor has started.
C14_GlobalRegistryImmutable ==
    /\ AsBuilt(validators)
    /\ BuiltinTypes \subseteq DOMAIN processor
    /\ \A t \in DOMAIN processor : GetType(processor[t]) = t
    /\ \A c \in Callers :
          calls[c].pc = "done" =>
              IF calls[c].proc = "processor"
              THEN calls[c].op = "GetValidator" =>
                      GetType(calls[c].validator) \in {calls[c].paramType, ParamTypeGeneric}
              ELSE ReturnsAsAlone(c)
    /\ fatal => \E c \in Callers : calls[c].op = "RegisterValidator"

\* C14, witness: while a caller has registered a validator of its own on
\* its processor, an Expand of another caller has gone through its loop and
\* succeeded.
C14_Witness ==
    \E c, d \in Callers :
        /\ c # d
        /\ calls[c].op = "Expand" /\ calls[c].pc = "done" /\ calls[c].res.status = "ok"
        /\ calls[c].argI >= 1
        /\ calls[d].op = "RegisterValidator" /\ calls[d].pc = "done"
        /\ ~AsBuilt(processor)

\* C14 as stated: every registry stays as it was built, with exactly the
\* four types and no validator registered a second time, every call
\* returns what it returns alone, and reading needs no synchronization.
C14_Original ==
    /\ AsBuilt(validators)
    /\ AsBuilt(processor)
    /\ \A c \in Callers : calls[c].pc = "done" => ReturnsAsAlone(c)
    /\ ~fatal

=============================================================================
